---- MODULE Spec2Model ----
(***************************************************************************)
(* Model of the C++ variable API (AI/Bindings/VariableApi.cpp): the        *)
(* VariableManager class, which runs every operation as a python3          *)
(* subprocess through popen(), and the extern "C" facade over it.          *)
(*                                                                         *)
(* Strings are sequences of character tokens:                              *)
(*   "SQ" = '   "DQ" = "   "BS" = \   "NL" = line feed                     *)
(*   "k", "n", "a", "b", ... = themselves.                                 *)
(* The process environment defines PWD and HOME (a shell started it).      *)
(* Names and values hold no character that makes sh run a command of its   *)
(* own or split the argument ($, backtick, ;, |, &, <, >, blanks).         *)
(***************************************************************************)
EXTENDS Integers, Sequences, FiniteSets, TLC

\* ------------------------------------------------------------------------
\* Bounds
\* ------------------------------------------------------------------------
NumHandles == 2     \* VariableManager instances created in one behaviour
NumAddrs == 2       \* heap addresses operator new can return
NumThreads == 2     \* caller threads of the concurrent specification
LongExtra == 3      \* characters by which the long value exceeds one chunk

\* fgets(buffer, 128, pipe) reads at most 127 characters per call
PipeBuffer == 128
PipeChunk == PipeBuffer - 1

Broken == <<"Broken">>      \* the command line did not run to its print
PyNone == <<"PyNone">>      \* Python's None
Garbage == <<"Garbage">>    \* what a read of freed memory may yield

\* ------------------------------------------------------------------------
\* String plumbing of one call
\* ------------------------------------------------------------------------

\* the position of the first character of s that is in set C, 0 if none
First(s, C) ==
    LET I == {i \in 1..Len(s) : s[i] \in C}
    IN  IF I = {} THEN 0 ELSE CHOOSE i \in I : \A j \in I : i <= j

From(s, i) == SubSeq(s, i, Len(s))

\* the while loops "Escape single quotes": every ' becomes \'
RECURSIVE EscapeQuotes(_)
EscapeQuotes(s) ==
    LET pos == First(s, {"SQ"})
    IN  IF pos = 0 THEN s
        ELSE SubSeq(s, 1, pos - 1) \o <<"BS", "SQ">> \o EscapeQuotes(From(s, pos + 1))

\* /bin/sh reading a field that sits inside the double-quoted argument of
\* python3 -c "...": mode "dq" inside the double quotes, "un" unquoted,
\* "sq" inside single quotes.  A field that does not end in mode "dq"
\* leaves the fixed text after it outside the double quotes, which sh
\* rejects (unterminated quote or unexpected parenthesis).  Characters
\* that mean nothing to sh in a mode are copied in one go.
RECURSIVE ShellScan(_, _, _)
ShellScan(s, mode, acc) ==
    LET special == CASE mode = "dq" -> {"DQ", "BS"}
                     [] mode = "un" -> {"DQ", "SQ", "BS", "NL"}
                     [] OTHER -> {"SQ"}
        i == First(s, special)
        c == s[i]
        rest == From(s, i + 1)
        got == acc \o SubSeq(s, 1, i - 1)
    IN
    IF i = 0 THEN (IF mode = "dq" THEN acc \o s ELSE Broken)
    ELSE
      CASE mode = "dq" ->
             IF c = "DQ" THEN ShellScan(rest, "un", got)
             ELSE IF rest # <<>> /\ rest[1] \in {"BS", "DQ"}
                  THEN ShellScan(Tail(rest), "dq", Append(got, rest[1]))
             ELSE ShellScan(rest, "dq", Append(got, c))
        [] mode = "un" ->
             IF c = "DQ" THEN ShellScan(rest, "dq", got)
             ELSE IF c = "SQ" THEN ShellScan(rest, "sq", got)
             ELSE IF c = "BS" /\ rest # <<>>
                  THEN ShellScan(Tail(rest), "un", Append(got, rest[1]))
             ELSE Broken
        [] OTHER -> ShellScan(rest, "un", got)

ShellWord(s) == ShellScan(s, "dq", <<>>)

\* python3 reading a field that sits inside a '...' string literal of the
\* code: mode "in" inside the literal, "out" after a quote closed it.
\* A field that does not end in mode "in" unbalances the quotes of the
\* fixed text after it, a SyntaxError.
RECURSIVE PyScan(_, _, _)
PyScan(s, mode, acc) ==
    LET i == First(s, {"BS", "SQ", "NL"})
        c == s[i]
        rest == From(s, i + 1)
        got == acc \o SubSeq(s, 1, i - 1)
    IN
    IF s = <<>> THEN (IF mode = "in" THEN acc ELSE Broken)
    ELSE IF mode = "out"
         THEN (IF s[1] = "SQ" THEN PyScan(Tail(s), "in", acc) ELSE Broken)
    ELSE IF i = 0 THEN acc \o s
    ELSE IF c = "SQ" THEN PyScan(rest, "out", got)
    ELSE IF c = "NL" \/ rest = <<>> THEN Broken
    ELSE LET d == rest[1] IN
         IF d \in {"SQ", "DQ", "BS"} THEN PyScan(Tail(rest), "in", Append(got, d))
         ELSE IF d = "n" THEN PyScan(Tail(rest), "in", Append(got, "NL"))
         ELSE IF d = "NL" THEN PyScan(Tail(rest), "in", got)
         ELSE PyScan(Tail(rest), "in", got \o <<"BS", d>>)

PyLiteral(s) == PyScan(s, "in", <<>>)

\* a C++ string on its way into the Python call: escaped, spliced into the
\* python code, passed through sh, parsed by python3 as a string literal
Transfer(s) ==
    LET w == ShellWord(EscapeQuotes(s))
    IN  IF w = Broken THEN Broken ELSE PyLiteral(w)

\* the fgets loop: the output is read in chunks and the chunks are appended
RECURSIVE ReadPipe(_)
ReadPipe(out) ==
    IF Len(out) <= PipeChunk THEN out
    ELSE SubSeq(out, 1, PipeChunk) \o ReadPipe(SubSeq(out, PipeChunk + 1, Len(out)))

\* "Remove trailing newline"
StripNewline(s) ==
    IF s # <<>> /\ s[Len(s)] = "NL" THEN SubSeq(s, 1, Len(s) - 1) ELSE s

Captured(out) == StripNewline(ReadPipe(out))

\* ------------------------------------------------------------------------
\* Mappings: a Python dict, as a sequence of key/value pairs with unique keys
\* ------------------------------------------------------------------------
EmptyMap == <<>>

Keys(m) == {m[i].k : i \in 1..Len(m)}

Lookup(m, k) ==
    IF k \in Keys(m) THEN (CHOOSE i \in 1..Len(m) : m[i].k = k) ELSE 0

\* dict.get(name): the value, or None
PyGet(m, k) == IF Lookup(m, k) = 0 THEN PyNone ELSE m[Lookup(m, k)].v

\* dict[name] = value: overwrite in place, or insert at the end
PySet(m, k, v) ==
    IF Lookup(m, k) = 0 THEN Append(m, [k |-> k, v |-> v])
    ELSE [m EXCEPT ![Lookup(m, k)].v = v]

\* json.dumps of a string
RECURSIVE JsonChars(_)
JsonChars(s) ==
    LET i == First(s, {"DQ", "BS", "NL"})
    IN  IF i = 0 THEN s
        ELSE SubSeq(s, 1, i - 1)
             \o (CASE s[i] = "DQ" -> <<"BS", "DQ">>
                   [] s[i] = "BS" -> <<"BS", "BS">>
                   [] OTHER -> <<"BS", "n">>)
             \o JsonChars(From(s, i + 1))

JsonString(s) == <<"DQ">> \o JsonChars(s) \o <<"DQ">>

\* json.dumps of a dict of strings
RECURSIVE JsonItems(_)
JsonItems(m) ==
    IF m = <<>> THEN <<>>
    ELSE JsonString(m[1].k) \o <<":", " ">> \o JsonString(m[1].v)
         \o (IF Len(m) > 1 THEN <<",", " ">> ELSE <<>>) \o JsonItems(Tail(m))

JsonDumps(m) == <<"{">> \o JsonItems(m) \o <<"}">>

\* ------------------------------------------------------------------------
\* Inputs
\* ------------------------------------------------------------------------
Handles == 1..NumHandles
Addrs == 1..NumAddrs
Threads == 1..NumThreads

TestDir == <<"t">>
HomeDir == <<"h">>

\* config_dir arguments of the object API
ConfigDirs == {TestDir}

\* a null pointer passed for config_dir
NullDir == <<"NULL">>

\* VariableManager::VariableManager: the storage path of a config_dir
ConfigPath(dir) ==
    IF dir = <<>> THEN HomeDir \o <<"/.config/claude/variables.json">>
    ELSE dir \o <<"/variables.json">>

Paths == {ConfigPath(d) : d \in ConfigDirs}

LongValue == [i \in 1..(PipeChunk + LongExtra) |-> "k"]

Names == {<<"a">>, <<"b", "SQ">>}
Values == {<<>>, <<"SQ">>, <<"DQ">>, <<"BS", "n">>, LongValue}

\* the names and values of the specification with three variables; the
\* empty string is one of the names
StoreNames == {<<>>, <<"a">>, <<"b", "SQ">>}
StoreValues == {<<"k">>, <<"DQ">>, <<"BS", "n">>}

AllNames == Names \cup StoreNames

\* ------------------------------------------------------------------------
\* State
\* ------------------------------------------------------------------------
VARIABLES
    file,         \* path -> [kind: "missing" | "corrupt" | "partial" | "json", map]
    folder,       \* path -> its parent directory: "present" | "absent" |
                  \*         "blocked" (cannot be created) | "readonly"
    hstate,       \* handle -> "unused" | "live" | "destroyed"
    haddr,        \* handle -> the address the handle points to (0: none yet)
    alloc,        \* the addresses that hold a VariableManager
    config_path,  \* address -> the config_path member stored there
    pc,           \* thread -> "idle" | "loaded" | "temp": where its set stands
    call,         \* thread -> the set in flight
    ret,          \* thread -> the last completed call of the object API and
                  \*           what it returned, none while a set is in flight
    expected,     \* <<path, name>> -> the value of the last successful set (history)
    writers,      \* the handles a successful set went through (history)
    getBuf,       \* get_variable's static std::string result
    listBuf,      \* list_variables' static std::string result
    heldGet,      \* handle -> the pointer its last get_variable returned
    heldList,     \* handle -> the pointer its last list_variables returned
    lastVia,      \* handle -> the facade call made last through the handle:
                  \*           "get", "list" or "other"
    lastGet,      \* the handle of the last get_variable call (0: none)
    lastList,     \* the handle of the last list_variables call (0: none)
    crashed       \* the process was aborted

vars == <<file, folder, hstate, haddr, alloc, config_path, pc, call, ret, expected,
          writers, getBuf, listBuf, heldGet, heldList, lastVia,
          lastGet, lastList, crashed>>

heapVars == <<hstate, haddr, alloc, config_path>>
bufVars == <<getBuf, listBuf, heldGet, heldList, lastGet, lastList>>
facadeVars == <<bufVars, lastVia>>

NoFile == [kind |-> "missing", map |-> EmptyMap]
BadFile == [kind |-> "corrupt", map |-> EmptyMap]
CutFile == [kind |-> "partial", map |-> EmptyMap]
JsonFile(m) == [kind |-> "json", map |-> m]

NoCall == [path |-> <<>>, map |-> EmptyMap, h |-> 0, name |-> <<>>, val |-> <<>>,
           over |-> FALSE]
NoRet == [op |-> "none", h |-> 0, path |-> <<>>, name |-> <<>>, val |-> <<>>,
          ok |-> FALSE, out |-> <<>>, load |-> "norun", stored |-> PyNone,
          over |-> FALSE]
NoSet == [set |-> FALSE, val |-> <<>>]
NoHeld == [has |-> FALSE, val |-> <<>>, dangling |-> FALSE]

\* a file system the program can start on: only a directory that is there
\* can hold a file
Init ==
    /\ file \in [Paths -> {NoFile, BadFile}]
    /\ folder \in [Paths -> {"present", "absent", "blocked", "readonly"}]
    /\ \A p \in Paths : file[p] # NoFile => folder[p] = "present"
    /\ hstate = [h \in Handles |-> "unused"]
    /\ haddr = [h \in Handles |-> 0]
    /\ alloc = {}
    /\ config_path = [a \in Addrs |-> <<>>]
    /\ pc = [t \in Threads |-> "idle"]
    /\ call = [t \in Threads |-> NoCall]
    /\ ret = [t \in Threads |-> NoRet]
    /\ expected = [pn \in Paths \X AllNames |-> NoSet]
    /\ writers = {}
    /\ getBuf = <<>>
    /\ listBuf = <<>>
    /\ heldGet = [h \in Handles |-> NoHeld]
    /\ heldList = [h \in Handles |-> NoHeld]
    /\ lastVia = [h \in Handles |-> "other"]
    /\ lastGet = 0
    /\ lastList = 0
    /\ crashed = FALSE

\* ------------------------------------------------------------------------
\* The python3 subprocess of one call (AI.Utils.variables.VariableManager)
\* ------------------------------------------------------------------------

\* the file at a path, as the subprocess finds it
FileAt(p) == IF p \in Paths THEN file[p] ELSE NoFile

\* whether a file can be written in the parent directory of a path, which
\* is created first when it is not there
Writable(p) == folder[p] \in {"present", "absent"}

\* VariableManager(path): a missing file is an empty mapping, a file that is
\* not valid JSON raises
PyLoads(p) == FileAt(p).kind \in {"missing", "json"}

\* GetVariable with print(value, end=''): None is printed as it is
GetStdoutBare(path, name) ==
    LET p == Transfer(path)
        n == Transfer(name)
    IN  IF p = Broken \/ n = Broken THEN <<>>
        ELSE IF ~PyLoads(p) THEN <<>>
        ELSE LET value == PyGet(FileAt(p).map, n)
             IN  IF value # PyNone THEN value ELSE <<"None">>

\* GetVariable with print(repr(value), end='')
GetStdoutRepr(path, name) ==
    LET p == Transfer(path)
        n == Transfer(name)
    IN  IF p = Broken \/ n = Broken THEN <<>>
        ELSE IF ~PyLoads(p) THEN <<>>
        ELSE LET value == PyGet(FileAt(p).map, n)
             IN  IF value # PyNone THEN <<"SQ">> \o value \o <<"SQ">>
                 ELSE <<"None">>

\* what the subprocess of GetVariable writes to its stdout
GetStdout(path, name) ==
    LET p == Transfer(path)
        n == Transfer(name)
    IN  IF p = Broken \/ n = Broken THEN <<>>
        ELSE IF ~PyLoads(p) THEN <<>>
        ELSE LET value == PyGet(FileAt(p).map, n)
             IN  IF value # PyNone THEN value ELSE <<>>

\* what the subprocess of ListVariables writes to its stdout
ListStdout(path) ==
    LET p == Transfer(path)
    IN  IF p = Broken THEN <<>>
        ELSE IF ~PyLoads(p) THEN <<>>
        ELSE JsonDumps(FileAt(p).map)

\* how the subprocess of a call got on with the file
LoadKind(path, fields) ==
    IF Transfer(path) = Broken \/ \E f \in fields : Transfer(f) = Broken
    THEN "norun"
    ELSE FileAt(Transfer(path)).kind

\* the backend's view of the name a call asked for
StoredFor(path, name) ==
    IF LoadKind(path, {name}) \in {"missing", "json"}
    THEN PyGet(FileAt(Transfer(path)).map, Transfer(name))
    ELSE PyNone

\* ------------------------------------------------------------------------
\* VariableManager (object API)
\* ------------------------------------------------------------------------

\* the subprocess of a returned call got as far as a loaded mapping
Loaded(r) == r.load \in {"missing", "json"}

\* VariableManager::GetVariable
GetReturn(path, name) == Captured(GetStdout(path, name))

\* VariableManager::ListVariables
ListReturn(path) == Captured(ListStdout(path))

\* VariableManager::VariableManager, placed at address a
Constructed(h, a, dir) ==
    /\ hstate[h] = "unused"
    /\ a \notin alloc
    /\ alloc' = alloc \cup {a}
    /\ haddr' = [haddr EXCEPT ![h] = a]
    /\ config_path' = [config_path EXCEPT ![a] = ConfigPath(dir)]
    /\ hstate' = [hstate EXCEPT ![h] = "live"]

\* ~VariableManager: the object is gone, its bytes stay where they were
Destructed(h) ==
    /\ alloc' = alloc \ {haddr[h]}
    /\ hstate' = [hstate EXCEPT ![h] = "destroyed"]
    /\ UNCHANGED <<haddr, config_path>>

GetDone(t, h, path, name) ==
    ret' = [ret EXCEPT ![t] =
              [op |-> "get", h |-> h, path |-> path, name |-> name, val |-> <<>>,
               ok |-> TRUE, out |-> GetReturn(path, name),
               load |-> LoadKind(path, {name}), stored |-> StoredFor(path, name),
               over |-> FALSE]]

ListDone(t, h, path) ==
    ret' = [ret EXCEPT ![t] =
              [op |-> "list", h |-> h, path |-> path, name |-> <<>>, val |-> <<>>,
               ok |-> TRUE, out |-> ListReturn(path),
               load |-> LoadKind(path, {}), stored |-> PyNone, over |-> FALSE]]

\* SetVariable with return true in place of return result == "success"
SetDoneTrue(t, h, path, name, value, ok, load, over) ==
    ret' = [ret EXCEPT ![t] =
              [op |-> "set", h |-> h, path |-> path, name |-> name, val |-> value,
               ok |-> TRUE, out |-> IF ok THEN <<"success">> ELSE <<>>,
               load |-> load, stored |-> PyNone, over |-> over]]

\* SetVariable returns result == "success"
SetDone(t, h, path, name, value, ok, load, over) ==
    ret' = [ret EXCEPT ![t] =
              [op |-> "set", h |-> h, path |-> path, name |-> name, val |-> value,
               ok |-> ok, out |-> IF ok THEN <<"success">> ELSE <<>>,
               load |-> load, stored |-> PyNone, over |-> over]]

\* SetVariable up to the point where its subprocess has loaded the file and
\* updated its dict; a subprocess that does not get that far prints nothing
SetStarted(t, h, path, name, value) ==
    LET load == LoadKind(path, {name, value})
    IN  IF load \in {"missing", "json"} /\ Transfer(path) \in Paths
        THEN /\ pc' = [pc EXCEPT ![t] = "loaded"]
             /\ call' = [call EXCEPT ![t] =
                           [path |-> Transfer(path),
                            map |-> PySet(FileAt(Transfer(path)).map,
                                          Transfer(name), Transfer(value)),
                            h |-> h, name |-> name, val |-> value,
                            over |-> Transfer(name) \in Keys(FileAt(Transfer(path)).map)]]
             /\ ret' = [ret EXCEPT ![t] = NoRet]
        ELSE /\ SetDone(t, h, path, name, value, FALSE, load, FALSE)
             /\ UNCHANGED <<pc, call>>

\* a VariableManager object comes into scope; where it is placed is of no
\* consequence to the object API, so it takes the lowest free address
Construct(h, dir) ==
    /\ ~crashed
    /\ \E a \in Addrs :
          /\ \A b \in Addrs \ alloc : a <= b
          /\ Constructed(h, a, dir)
    /\ UNCHANGED <<file, folder, pc, call, ret, expected, writers, facadeVars, crashed>>

\* a VariableManager object goes out of scope
Destruct(h) ==
    /\ ~crashed
    /\ hstate[h] = "live"
    /\ \A t \in Threads : pc[t] # "idle" => call[t].h # h
    /\ Destructed(h)
    /\ UNCHANGED <<file, folder, pc, call, ret, expected, writers, facadeVars, crashed>>

\* GetVariable whose python code stores '' for a name that is not there
GetVariableSetsDefault(t, h, name) ==
    /\ ~crashed
    /\ pc[t] = "idle"
    /\ hstate[h] = "live"
    /\ GetDone(t, h, config_path[haddr[h]], name)
    /\ file' = [p \in Paths |->
                  IF /\ p = Transfer(config_path[haddr[h]])
                     /\ Loaded(ret'[t]) /\ ret'[t].stored = PyNone
                     /\ Writable(p)
                  THEN JsonFile(PySet(file[p].map, Transfer(name), <<>>))
                  ELSE file[p]]
    /\ UNCHANGED <<folder, heapVars, pc, call, expected, writers, facadeVars, crashed>>

GetVariable(t, h, name) ==
    /\ ~crashed
    /\ pc[t] = "idle"
    /\ hstate[h] = "live"
    /\ GetDone(t, h, config_path[haddr[h]], name)
    /\ UNCHANGED <<file, folder, heapVars, pc, call, expected, writers, facadeVars, crashed>>

ListVariables(t, h) ==
    /\ ~crashed
    /\ pc[t] = "idle"
    /\ hstate[h] = "live"
    /\ ListDone(t, h, config_path[haddr[h]])
    /\ UNCHANGED <<file, folder, heapVars, pc, call, expected, writers, facadeVars, crashed>>

\* SetVariable, from the call to the subprocess holding the updated dict
SetVariable(t, h, name, value) ==
    /\ ~crashed
    /\ pc[t] = "idle"
    /\ hstate[h] = "live"
    /\ SetStarted(t, h, config_path[haddr[h]], name, value)
    /\ UNCHANGED <<file, folder, heapVars, expected, writers, facadeVars, crashed>>

\* the subprocess opens the path itself for writing, which truncates it
PyWriteInPlace(t) ==
    /\ pc[t] = "loaded"
    /\ Writable(call[t].path)
    /\ pc' = [pc EXCEPT ![t] = "temp"]
    /\ folder' = [folder EXCEPT ![call[t].path] = "present"]
    /\ file' = [file EXCEPT ![call[t].path] = CutFile]
    /\ UNCHANGED <<heapVars, call, ret, expected, writers, facadeVars, crashed>>

\* the subprocess creates the parent directory of the path if it is not
\* there and writes the whole mapping to a temporary file of its own in it
PyWriteTemp(t) ==
    /\ pc[t] = "loaded"
    /\ Writable(call[t].path)
    /\ pc' = [pc EXCEPT ![t] = "temp"]
    /\ folder' = [folder EXCEPT ![call[t].path] = "present"]
    /\ UNCHANGED <<file, heapVars, call, ret, expected, writers, facadeVars, crashed>>

\* the subprocess renames the temporary file over the path and prints
\* 'success'; SetVariable returns true
PyRename(t) ==
    /\ pc[t] = "temp"
    /\ file' = [file EXCEPT ![call[t].path] = JsonFile(call[t].map)]
    /\ pc' = [pc EXCEPT ![t] = "idle"]
    /\ SetDone(t, call[t].h, call[t].path, call[t].name, call[t].val, TRUE, "json",
               call[t].over)
    /\ expected' = [expected EXCEPT ![<<call[t].path, call[t].name>>] =
                      [set |-> TRUE, val |-> call[t].val]]
    /\ writers' = writers \cup {call[t].h}
    /\ call' = [call EXCEPT ![t] = NoCall]
    /\ UNCHANGED <<folder, heapVars, facadeVars, crashed>>

\* the subprocess dies before the rename; SetVariable returns false
PyKilled(t) ==
    /\ pc[t] \in {"loaded", "temp"}
    /\ pc' = [pc EXCEPT ![t] = "idle"]
    /\ SetDone(t, call[t].h, call[t].path, call[t].name, call[t].val, FALSE, "killed",
               FALSE)
    /\ call' = [call EXCEPT ![t] = NoCall]
    /\ UNCHANGED <<file, folder, heapVars, expected, writers, facadeVars, crashed>>

\* the parent directory cannot be created or written to: the subprocess
\* raises before it prints anything; SetVariable returns false
PyUnwritable(t) ==
    /\ pc[t] = "loaded"
    /\ ~Writable(call[t].path)
    /\ pc' = [pc EXCEPT ![t] = "idle"]
    /\ SetDone(t, call[t].h, call[t].path, call[t].name, call[t].val, FALSE,
               "unwritable", FALSE)
    /\ call' = [call EXCEPT ![t] = NoCall]
    /\ UNCHANGED <<file, folder, heapVars, expected, writers, facadeVars, crashed>>

\* ------------------------------------------------------------------------
\* Specification of the object API with one caller
\* ------------------------------------------------------------------------
Next ==
    \/ \E h \in Handles, d \in ConfigDirs : Construct(h, d)
    \/ \E h \in Handles : Destruct(h)
    \/ \E h \in Handles, n \in Names : GetVariable(1, h, n)
    \/ \E h \in Handles : ListVariables(1, h)
    \/ \E h \in Handles, n \in Names, v \in Values : SetVariable(1, h, n, v)
    \/ PyWriteTemp(1)
    \/ PyRename(1)
    \/ PyKilled(1)
    \/ PyUnwritable(1)

Spec == Init /\ [][Next]_vars

\* ------------------------------------------------------------------------
\* Specification of the object API with one caller and three variables
\* ------------------------------------------------------------------------
NextStore ==
    \/ \E h \in Handles, d \in ConfigDirs : Construct(h, d)
    \/ \E h \in Handles : Destruct(h)
    \/ \E h \in Handles, n \in StoreNames : GetVariable(1, h, n)
    \/ \E h \in Handles : ListVariables(1, h)
    \/ \E h \in Handles, n \in StoreNames, v \in StoreValues : SetVariable(1, h, n, v)
    \/ PyWriteTemp(1)
    \/ PyRename(1)
    \/ PyKilled(1)
    \/ PyUnwritable(1)

SpecStore == Init /\ [][NextStore]_vars

\* ------------------------------------------------------------------------
\* Specification of the object API with concurrent callers
\* ------------------------------------------------------------------------
ConcValues == {<<"SQ">>}

NextConc ==
    \/ \E h \in Handles, d \in ConfigDirs : Construct(h, d)
    \/ \E t \in Threads, h \in Handles, n \in Names, v \in ConcValues :
          SetVariable(t, h, n, v)
    \/ \E t \in Threads : PyWriteTemp(t)
    \/ \E t \in Threads : PyRename(t)
    \/ \E t \in Threads : PyKilled(t)
    \/ \E t \in Threads : PyUnwritable(t)

SpecConc == Init /\ [][NextConc]_vars

\* ------------------------------------------------------------------------
\* The extern "C" facade
\* ------------------------------------------------------------------------
\* a pointer to an object that is no longer there
Stale(h) == haddr[h] \notin alloc

\* what the caller of h reads through the pointer its last get_variable /
\* list_variables returned
ViewGet(h) == IF heldGet[h].dangling THEN Garbage ELSE getBuf
ViewList(h) == IF heldList[h].dangling THEN Garbage ELSE listBuf

\* result = ... on a static std::string, and return result.c_str(): the
\* characters are replaced in place, or, when the string grows and does not
\* fit its block (whose capacity depends on the library), in a new block,
\* which leaves the pointers returned before dangling
Assigned(buf, heldBy, h, new, moved) ==
    /\ moved \in (IF Len(new) > Len(buf) THEN BOOLEAN ELSE {FALSE})
    /\ heldBy' = [g \in Handles |->
                    IF g = h THEN [has |-> TRUE, val |-> new, dangling |-> FALSE]
                    ELSE [heldBy[g] EXCEPT !.dangling = @ \/ (moved /\ heldBy[g].has)]]

\* get_variable's static result takes the value
GetStore(h, new) ==
    /\ getBuf' = new
    /\ \E moved \in BOOLEAN : Assigned(getBuf, heldGet, h, new, moved)
    /\ lastGet' = h
    /\ UNCHANGED <<listBuf, heldList, lastList>>

\* list_variables with get_variable's static result as its own
ListStoreShared(h, new) ==
    /\ listBuf' = new
    /\ getBuf' = new
    /\ \E moved \in BOOLEAN : Assigned(listBuf, heldList, h, new, moved)
    /\ lastList' = h
    /\ UNCHANGED <<heldGet, lastGet>>

\* list_variables' static result takes the value
ListStore(h, new) ==
    /\ listBuf' = new
    /\ \E moved \in BOOLEAN : Assigned(listBuf, heldList, h, new, moved)
    /\ lastList' = h
    /\ UNCHANGED <<getBuf, heldGet, lastGet>>

\* a call through a pointer to a freed object may fault
Faults(h) ==
    /\ Stale(h)
    /\ crashed' = TRUE
    /\ UNCHANGED <<file, folder, heapVars, pc, call, ret, expected, writers,
                   facadeVars>>

Callable(h) ==
    /\ ~crashed
    /\ pc[1] = "idle"
    /\ hstate[h] \in {"live", "destroyed"}

create_variable_manager(h, config_dir) ==
    /\ ~crashed
    /\ pc[1] = "idle"
    /\ \E a \in Addrs :
          Constructed(h, a, IF config_dir = NullDir THEN <<>> ELSE config_dir)
    /\ lastVia' = [lastVia EXCEPT ![h] = "other"]
    /\ UNCHANGED <<file, folder, pc, call, ret, expected, writers, bufVars, crashed>>

\* delete vm; deleting what is already deleted aborts in the allocator or
\* goes unnoticed
destroy_variable_manager(h) ==
    /\ Callable(h)
    /\ \/ /\ ~Stale(h)
          /\ Destructed(h)
          /\ UNCHANGED crashed
       \/ /\ Stale(h)
          /\ crashed' \in BOOLEAN
          /\ UNCHANGED heapVars
    /\ lastVia' = [lastVia EXCEPT ![h] = "other"]
    /\ UNCHANGED <<file, folder, pc, call, ret, expected, writers, bufVars>>

get_variable(h, name) ==
    /\ Callable(h)
    /\ \/ Faults(h)
       \/ /\ GetStore(h, GetReturn(config_path[haddr[h]], name))
          /\ lastVia' = [lastVia EXCEPT ![h] = "get"]
          /\ UNCHANGED <<file, folder, heapVars, pc, call, ret, expected, writers, crashed>>

set_variable(h, name, value) ==
    /\ Callable(h)
    /\ \/ Faults(h)
       \/ /\ SetStarted(1, h, config_path[haddr[h]], name, value)
          /\ lastVia' = [lastVia EXCEPT ![h] = "other"]
          /\ UNCHANGED <<file, folder, heapVars, expected, writers, bufVars, crashed>>

list_variables(h) ==
    /\ Callable(h)
    /\ \/ Faults(h)
       \/ /\ ListStore(h, ListReturn(config_path[haddr[h]]))
          /\ lastVia' = [lastVia EXCEPT ![h] = "list"]
          /\ UNCHANGED <<file, folder, heapVars, pc, call, ret, expected, writers, crashed>>

\* what set_variable makes of SetVariable's result
set_variable_result(ok) == IF ok THEN 1 ELSE 0

\* ------------------------------------------------------------------------
\* Specification of the facade with one caller
\* ------------------------------------------------------------------------
FacadeNames == {<<"a">>}
FacadeValues == {<<"SQ">>}

NextFacade ==
    \/ \E h \in Handles, d \in ConfigDirs : create_variable_manager(h, d)
    \/ \E h \in Handles : destroy_variable_manager(h)
    \/ \E h \in Handles, n \in FacadeNames : get_variable(h, n)
    \/ \E h \in Handles, n \in FacadeNames, v \in FacadeValues :
          set_variable(h, n, v)
    \/ \E h \in Handles : list_variables(h)
    \/ PyWriteTemp(1)
    \/ PyRename(1)
    \/ PyKilled(1)
    \/ PyUnwritable(1)

SpecFacade == Init /\ [][NextFacade]_vars

\* ------------------------------------------------------------------------
\* Claims
\* ------------------------------------------------------------------------
Returned(t) == ret[t]

\* C1: a get that follows a successful set of the same name, with no write
\* to the name in between, returns exactly the value that was set.
C1_RoundTrip ==
    \A t \in Threads :
        LET r == Returned(t) IN
        (r.op = "get" /\ r.path \in Paths /\ expected[<<r.path, r.name>>].set)
            => r.out = expected[<<r.path, r.name>>].val

\* C2: once every instance that wrote is destroyed, a get through a new
\* instance at the same path returns the value last set for the name.
C2_Persistence ==
    \A t \in Threads :
        LET r == Returned(t) IN
        (/\ r.op = "get" /\ r.path \in Paths
         /\ expected[<<r.path, r.name>>].set
         /\ r.h \notin writers
         /\ \A w \in writers : hstate[w] = "destroyed")
            => r.out = expected[<<r.path, r.name>>].val

\* C3: when every concurrent set call has returned, the backing file holds
\* an entry for every name a successful set wrote.
C3_NoLostUpdate ==
    (\A t \in Threads : pc[t] = "idle")
        => \A p \in Paths, n \in Names :
              expected[<<p, n>>].set
                  => /\ file[p].kind = "json"
                     /\ Transfer(n) \in Keys(file[p].map)

\* what a call returns on a store that is empty
EmptyStoreResult(op) == IF op = "get" THEN <<>> ELSE JsonDumps(EmptyMap)

\* C4: a get or list that finds the backing file not to be valid JSON
\* reports it: what it returns differs from what it returns on an empty
\* store.
C4_CorruptReported ==
    \A t \in Threads :
        LET r == Returned(t) IN
        (r.op \in {"get", "list"} /\ r.load = "corrupt")
            => r.out # EmptyStoreResult(r.op)

\* C5: the backing file is never cut off, and whenever it changes it
\* changes in one step to the complete mapping of a set in flight; a
\* subprocess that dies leaves it as it was.
C5_AtomicPersistence ==
    [][\A p \in Paths :
          /\ file'[p].kind # "partial"
          /\ file'[p] # file[p]
                => \E t \in Threads :
                      /\ pc[t] = "temp"
                      /\ call[t].path = p
                      /\ file'[p] = JsonFile(call[t].map)]_vars

\* a set died in the middle of its write and the file still holds the
\* complete mapping from before
C5_Witness ==
    \E t \in Threads :
        /\ Returned(t).op = "set"
        /\ Returned(t).load = "killed"
        /\ file[Returned(t).path].kind = "json"
        /\ file[Returned(t).path].map # EmptyMap
        /\ PyGet(file[Returned(t).path].map, Transfer(Returned(t).name))
              # Transfer(Returned(t).val)

\* C6 as stated: until the next facade call through the same handle, the
\* string a get or list call returned through the handle keeps its content.
C6_PerHandle ==
    \A h \in Handles :
        /\ lastVia[h] = "get" => ViewGet(h) = heldGet[h].val
        /\ lastVia[h] = "list" => ViewList(h) = heldList[h].val

\* C6 amended: the string get_variable returned keeps its content until the
\* next get_variable call through any handle, the string list_variables
\* returned until the next list_variables call through any handle.
C6_PerFunction ==
    \A h \in Handles :
        /\ (heldGet[h].has /\ lastGet = h) => ViewGet(h) = heldGet[h].val
        /\ (heldList[h].has /\ lastList = h) => ViewList(h) = heldList[h].val

\* the string get_variable returned through one handle is still there after
\* calls of other facade functions through that handle and through another
C6_Witness ==
    \E h \in Handles, g \in Handles :
        /\ h # g
        /\ heldGet[h].has /\ lastGet = h /\ lastVia[h] = "other"
        /\ heldList[g].has /\ lastList = g /\ lastVia[g] = "list"
        /\ heldList[g].val # heldGet[h].val
        /\ heldGet[h].val # <<>>

\* C7: no call sequence aborts the process, takes the object of a live
\* handle away, or hands out the pointer of a destroyed handle again.
C7_HandleSafety ==
    /\ ~crashed
    /\ \A h \in Handles : hstate[h] = "live" => haddr[h] \in alloc
    /\ \A h \in Handles, g \in Handles :
          (hstate[h] = "destroyed" /\ hstate[g] = "live") => haddr[h] # haddr[g]

\* C8: a get of a name that is not in the store, empty or populated,
\* returns normally with the empty string.
C8_MissingKey ==
    \A t \in Threads :
        LET r == Returned(t) IN
        (r.op = "get" /\ Loaded(r) /\ r.stored = PyNone)
            => (r.ok /\ r.out = <<>>)

\* a get of a missing name on a populated store returned the empty string
C8_Witness ==
    \E t \in Threads :
        LET r == Returned(t) IN
        /\ r.op = "get" /\ r.load = "json" /\ r.stored = PyNone
        /\ file[r.path].map # EmptyMap
        /\ r.out = <<>>

\* C9 as stated: GetVariable gives different results for a name that is not
\* present and a name that is present with the empty string.
C9_Distinguishes ==
    \A p \in Paths, n1 \in Names, n2 \in Names :
        (/\ file[p].kind = "json"
         /\ StoredFor(p, n1) = <<>>
         /\ StoredFor(p, n2) = PyNone)
            => GetReturn(p, n1) # GetReturn(p, n2)

\* C9 amended: GetVariable of a name that is present with the empty string
\* returns what GetVariable of a name that is not present returns; only
\* the backend's lookup (None against '') tells the two apart.
C9_Collapsed ==
    \A t \in Threads, n2 \in Names :
        LET r == Returned(t) IN
        (/\ r.op = "get" /\ Loaded(r) /\ r.stored = <<>>
         /\ r.path \in Paths /\ file[r.path].kind \in {"missing", "json"}
         /\ StoredFor(r.path, n2) = PyNone)
            => /\ r.out = GetReturn(r.path, n2)
               /\ r.stored # StoredFor(r.path, n2)

\* a get of a name stored with the empty string returned, while another
\* name is not in the store
C9_Witness ==
    \E t \in Threads, n2 \in Names :
        LET r == Returned(t) IN
        /\ r.op = "get" /\ r.load = "json" /\ r.stored = <<>>
        /\ file[r.path].kind = "json"
        /\ StoredFor(r.path, n2) = PyNone

\* C10: after a successful set that overwrote the name, a get of the name
\* returns the value just set and the mapping holds one entry for the name.
C10_LastWriteWins ==
    \A t \in Threads :
        LET r == Returned(t) IN
        (r.op = "set" /\ r.ok /\ r.over)
            => /\ GetReturn(r.path, r.name) = r.val
               /\ Cardinality({i \in 1..Len(file[r.path].map) :
                                  file[r.path].map[i].k = Transfer(r.name)}) = 1

\* C11: a set that returns success has left the parent directory of the
\* storage path in place, created if it was not there, with the mapping in
\* the file; a set on a path whose parent directory cannot be created or
\* written to returns failure (false, 0 at the facade), leaves no file and
\* does not abort the process.
C11_Unwritable ==
    \A t \in Threads :
        LET r == Returned(t) IN
        (r.op = "set" /\ r.path \in Paths)
            => /\ r.ok => (folder[r.path] = "present" /\ file[r.path].kind = "json")
               /\ ~Writable(r.path)
                     => /\ ~r.ok
                        /\ set_variable_result(r.ok) = 0
                        /\ file[r.path] = NoFile
               /\ ~crashed

\* a set whose strings reached the backend intact returned from a path whose
\* parent directory cannot be created
C11_Witness ==
    \E t \in Threads :
        LET r == Returned(t) IN
        /\ r.op = "set" /\ r.path \in Paths
        /\ r.load = "unwritable"
        /\ folder[r.path] = "blocked"

\* C12: a set with the empty string as the name, whatever the value,
\* returns true when the path is writable, the file is not corrupt and the
\* subprocess is not killed.
C12_EmptyName ==
    \A t \in Threads :
        LET r == Returned(t) IN
        (/\ r.op = "set" /\ r.name = <<>>
         /\ r.path \in Paths /\ Writable(r.path)
         /\ r.load \notin {"corrupt", "killed", "unwritable"})
            => r.ok

\* the names a successful set wrote at a path
SetNames(p) == {n \in AllNames : expected[<<p, n>>].set}

\* the mappings that hold every name set at a path with the value of its
\* last successful set and nothing else, in any order
ExpectedMaps(p) ==
    LET N == Cardinality(SetNames(p))
        Orders == {f \in [1..N -> SetNames(p)] :
                      \A i \in 1..N, j \in 1..N : f[i] = f[j] => i = j}
    IN  {[i \in 1..N |-> [k |-> f[i], v |-> expected[<<p, f[i]>>].val]] : f \in Orders}

\* C13: what list returns on a store that loads is the JSON object of
\* exactly the names set so far, each with the value of its last
\* successful set.
C13_ListComplete ==
    \A t \in Threads :
        LET r == Returned(t) IN
        (r.op = "list" /\ r.path \in Paths /\ Loaded(r))
            => \E m \in ExpectedMaps(r.path) : r.out = JsonDumps(m)

\* C14: after a successful set, the store holds for every other name what
\* the last successful set of that name stored (nothing if there was none),
\* and every name set so far is retrievable with its own value through any
\* instance at the path.
C14_FrameEffect ==
    \A t \in Threads :
        LET r == Returned(t) IN
        (r.op = "set" /\ r.ok)
            => /\ \A m \in AllNames \ {r.name} :
                      StoredFor(r.path, m) =
                          IF expected[<<r.path, m>>].set
                          THEN Transfer(expected[<<r.path, m>>].val)
                          ELSE PyNone
               /\ \A m \in AllNames :
                      expected[<<r.path, m>>].set
                          => GetReturn(r.path, m) = expected[<<r.path, m>>].val

\* C15: a step in which a get or a list returns, or a VariableManager is
\* created or destroyed, leaves every backing file and its directory
\* exactly as they were.
C15_ReadOnly ==
    [][((\E t \in Threads : ret'[t] # ret[t] /\ ret'[t].op \in {"get", "list"})
        \/ hstate' # hstate)
           => (file' = file /\ folder' = folder)]_vars

\* a get of a name that is not there has returned from a populated store
\* after an instance was destroyed
C15_Witness ==
    \E t \in Threads, h \in Handles :
        LET r == Returned(t) IN
        /\ r.op = "get" /\ r.load = "json" /\ r.stored = PyNone
        /\ r.path \in Paths /\ file[r.path].map # EmptyMap
        /\ hstate[h] = "destroyed"
        /\ r.name = <<"a">>

====
